---- MODULE Spec2Model ----
(***************************************************************************)
(* The form-state engine of sv-kit-form: createForm() of                   *)
(* packages/sv-kit-form/src/lib (index.ts lines 48-288) with the built-in  *)
(* validators it is configured with.                                       *)
(*                                                                         *)
(* JavaScript values are tagged records, plain objects are sequences of    *)
(* key/value entries in insertion order, so Object.keys() order is part of *)
(* the state.  Every engine operation is a pure operator from an engine    *)
(* state record to an engine state record; the actions apply them.         *)
(***************************************************************************)
EXTENDS Naturals, Sequences, FiniteSets, TLC

VARIABLES
    cfg,            \* the options object passed to createForm (never changes)
    values,         \* $state values: ordered object  field -> JS value
    errors,         \* $state errors: ordered object  field -> message (a JS string)
    touched,        \* SvelteSet of touched fields
    dirty,          \* SvelteSet of dirty fields
    isSubmitting,   \* $state flag
    isValid,        \* $derived flag, recomputed whenever values/errors change
    turn,           \* "idle", or "invoke": handleSubmit is at line 207
    awaiting,       \* handleSubmit calls suspended at the await of line 207
    callCount,      \* how many times the submit callback has been invoked
    timers,         \* pending setTimeout(() => scrollToFirstError(), 0)
    fieldRefs,      \* SvelteMap  field -> element
    focusTimers,    \* pending setTimeout(() => ref.focus(), 100): the refs captured
    last            \* the operation that produced this state, and its result

vars == <<cfg, values, errors, touched, dirty, isSubmitting, isValid,
          turn, awaiting, callCount, timers, fieldRefs, focusTimers, last>>

-----------------------------------------------------------------------------
(* Bounds of the model.                                                    *)

MaxCalls == 2
MaxInFlight == 2
MaxTimers == 1
MaxFocus == 1

-----------------------------------------------------------------------------
(* JavaScript values.                                                      *)

Undefined == [t |-> "undefined"]
Null == [t |-> "null"]
Str(s) == [t |-> "string", v |-> s]
Bool(b) == [t |-> "boolean", v |-> b]
Fn(name) == [t |-> "function", name |-> name]
Arr(items) == [t |-> "array", items |-> items]
\* an object, by its entries in key order
Obj(entries) == [t |-> "object", entries |-> entries]
Num(n) == [t |-> "number", v |-> n]
NaN == [t |-> "NaN"]
\* an HTMLElement of the page
Element(id) == [t |-> "element", id |-> id]

\* ToBoolean, as used by `!x`, `if (x)` and `x || y`.
Truthy(x) ==
    CASE x.t = "undefined" -> FALSE
      [] x.t = "null" -> FALSE
      [] x.t = "string" -> x.v # ""
      [] x.t = "boolean" -> x.v
      [] x.t = "number" -> x.v # 0
      [] x.t = "NaN" -> FALSE
      [] OTHER -> TRUE

IsArray(x) == x.t = "array"

-----------------------------------------------------------------------------
(* Plain objects: a sequence of entries [k, v] in insertion order.         *)

ObjKeys(o) == [i \in 1..Len(o) |-> o[i].k]

ObjHas(o, k) == \E i \in 1..Len(o) : o[i].k = k

ObjIdx(o, k) == CHOOSE i \in 1..Len(o) : o[i].k = k

\* o[k]: a missing property reads as `undef`.
ObjGet(o, k, undef) == IF ObjHas(o, k) THEN o[ObjIdx(o, k)].v ELSE undef

\* o[k] = v: an existing key keeps its place, a new key goes last.
ObjSet(o, k, v) ==
    IF ObjHas(o, k) THEN [o EXCEPT ![ObjIdx(o, k)].v = v]
    ELSE Append(o, [k |-> k, v |-> v])

\* delete o[k]
ObjDelete(o, k) == SelectSeq(o, LAMBDA e : e.k # k)

SeqToSet(q) == {q[i] : i \in 1..Len(q)}

-----------------------------------------------------------------------------
(* The built-in validators.                                                *)

RequiredMsg == "This field is required"

minLengthMsg(min) == "Must be at least " \o ToString(min) \o " characters"

required(value) ==
    IF value = Null \/ value = Undefined \/ value = Str("")
    THEN Str(RequiredMsg) ELSE Null

minLength(min, value) ==
    IF ~Truthy(value) THEN Null
    ELSE IF Len(value.v) >= min THEN Null ELSE Str(minLengthMsg(min))

maxLengthMsg(max) == "Must be at most " \o ToString(max) \o " characters"

maxLength(max, value) ==
    IF ~Truthy(value) THEN Null
    ELSE IF Len(value.v) <= max THEN Null ELSE Str(maxLengthMsg(max))

\* the strings the forms are filled with, by what the regular expressions of
\* the validators and the conversion to a number make of them
AlphaStrings == {"abc"}
EmailStrings == {"a@b.co"}
DecimalStrings == <<[s |-> "5", n |-> 5], [s |-> "18", n |-> 18]>>

\* /^[A-Za-z\s]+$/.test(value)
alphaRegexTest(s) == s \in AlphaStrings

\* /^[^\s@]+@[^\s@]+\.[^\s@]+$/.test(value)
emailRegexTest(s) == s \in EmailStrings

alphabetsOnly(value) ==
    IF ~Truthy(value) THEN Null
    ELSE IF alphaRegexTest(value.v) THEN Null ELSE Str("Only alphabets are allowed")

email(value) ==
    IF ~Truthy(value) THEN Null
    ELSE IF emailRegexTest(value.v) THEN Null ELSE Str("Enter a valid email address")

\* Number(s) of a string: the empty string is 0, a decimal literal its
\* value, anything else NaN
StringToNumber(s) ==
    IF s = "" THEN Num(0)
    ELSE IF \E i \in 1..Len(DecimalStrings) : DecimalStrings[i].s = s
    THEN Num(DecimalStrings[CHOOSE i \in 1..Len(DecimalStrings) :
                                DecimalStrings[i].s = s].n)
    ELSE NaN

\* ToNumber, as applied by Number(x) and by the operands of >= and <=
ToNumber(x) ==
    CASE x.t = "number" -> x
      [] x.t = "string" -> StringToNumber(x.v)
      [] x.t = "boolean" -> Num(IF x.v THEN 1 ELSE 0)
      [] x.t = "null" -> Num(0)
      [] OTHER -> NaN

number(value) ==
    IF value = Null \/ value = Undefined \/ value = Str("") THEN Null
    ELSE IF ToNumber(value) # NaN THEN Null ELSE Str("Must be a valid number")

\* value >= minValue: false when the value converts to NaN
min(minValue, value) ==
    IF value = Null \/ value = Undefined THEN Null
    ELSE LET n == ToNumber(value)
         IN  IF n # NaN /\ n.v >= minValue THEN Null
             ELSE Str("Must be at least " \o ToString(minValue))

max(maxValue, value) ==
    IF value = Null \/ value = Undefined THEN Null
    ELSE LET n == ToNumber(value)
         IN  IF n # NaN /\ n.v <= maxValue THEN Null
             ELSE Str("Must be at most " \o ToString(maxValue))

\* value === formData[fieldName] ? null : message || `Must match ${fieldName}`
matches(fieldName, message, value, formData) ==
    IF ~Truthy(formData) THEN Null
    ELSE IF value = ObjGet(formData.entries, fieldName, Undefined) THEN Null
    ELSE IF Truthy(message) THEN message ELSE Str("Must match " \o fieldName)

\* validateRule(normalizedValue, values): the call of one rule of the schema.
\* A "custom" rule is a caller-supplied function; the ones used here return
\* a fixed result whatever the value.
ApplyRule(rule, value, formData) ==
    CASE rule.name = "required" -> required(value)
      [] rule.name = "minLength" -> minLength(rule.min, value)
      [] rule.name = "custom" -> rule.result
      [] rule.name = "maxLength" -> maxLength(rule.max, value)
      [] rule.name = "alphabetsOnly" -> alphabetsOnly(value)
      [] rule.name = "email" -> email(value)
      [] rule.name = "number" -> number(value)
      [] rule.name = "min" -> min(rule.min, value)
      [] rule.name = "max" -> max(rule.max, value)
      [] rule.name = "matches" ->
            matches(rule.fieldName, rule.message, value, Obj(formData))

ruleRequired == Fn("required")
ruleMinLength(n) == [t |-> "function", name |-> "minLength", min |-> n]
ruleCustom(result) == [t |-> "function", name |-> "custom", result |-> result]
ruleMaxLength(n) == [t |-> "function", name |-> "maxLength", max |-> n]
ruleAlphabetsOnly == Fn("alphabetsOnly")
ruleEmail == Fn("email")
ruleNumber == Fn("number")
ruleMin(n) == [t |-> "function", name |-> "min", min |-> n]
ruleMax(n) == [t |-> "function", name |-> "max", max |-> n]
ruleMatches(fieldName, message) ==
    [t |-> "function", name |-> "matches", fieldName |-> fieldName, message |-> message]

-----------------------------------------------------------------------------
(* The engine state the operations work on, and the operations.  `log` is  *)
(* the list of rule calls <<field, index in the rule list>> made so far in *)
(* the current operation, `seen` the value each of these calls was given.  *)

St == [values |-> values, errors |-> errors, touched |-> touched,
       dirty |-> dirty, isSubmitting |-> isSubmitting, log |-> <<>>,
       seen |-> <<>>]

\* isValid as "the errors object has no key"
IsValidOf_NoKeys(vals, errs) == Len(errs) = 0

\* const isValid = $derived(Object.keys(values).every((key) => !errors[key]))
IsValidOf(vals, errs) ==
    \A i \in 1..Len(vals) : ~Truthy(ObjGet(errs, ObjKeys(vals)[i], Undefined))

\* the value handed to the rules as it is
Normalize_Identity(value) == value

\* const normalizedValue = value === null || ... ? '' : value
Normalize(value) ==
    IF value = Null \/ value = Undefined \/ value = Str("") THEN Str("") ELSE value

\* rules = Array.isArray(rule) ? rule : [rule]
RulesOf(rule) == IF IsArray(rule) THEN rule.items ELSE <<rule>>

\* if (error) { errors[field] = error; return false; }
OnRuleError(s, field, error) ==
    [st |-> [s EXCEPT !.errors = ObjSet(@, field, error)], ret |-> FALSE]

\* return true, without the delete
OnAllRulesPass_KeepsEntry(s, field) == [st |-> s, ret |-> TRUE]

\* delete errors[field]; return true;
OnAllRulesPass(s, field) ==
    [st |-> [s EXCEPT !.errors = ObjDelete(@, field)], ret |-> TRUE]

\* the loop without its `return false`: every rule runs, the last failure wins
RECURSIVE RunRules_NoReturn(_, _, _, _, _)
RunRules_NoReturn(s, field, rules, i, normalizedValue) ==
    IF i > Len(rules)
    THEN IF \E j \in 1..Len(rules) : Truthy(ApplyRule(rules[j], normalizedValue, s.values))
         THEN [st |-> s, ret |-> FALSE]
         ELSE OnAllRulesPass(s, field)
    ELSE LET error == ApplyRule(rules[i], normalizedValue, s.values)
             s1 == [s EXCEPT !.log = Append(@, <<field, i>>),
                             !.seen = Append(@, normalizedValue)]
         IN  RunRules_NoReturn(IF Truthy(error) THEN OnRuleError(s1, field, error).st ELSE s1,
                               field, rules, i + 1, normalizedValue)

\* for (const validateRule of rules) { ... }, from the i-th rule on
RECURSIVE RunRules(_, _, _, _, _)
RunRules(s, field, rules, i, normalizedValue) ==
    IF i > Len(rules) THEN OnAllRulesPass(s, field)
    ELSE LET error == ApplyRule(rules[i], normalizedValue, s.values)
             s1 == [s EXCEPT !.log = Append(@, <<field, i>>),
                             !.seen = Append(@, normalizedValue)]
         IN  IF Truthy(error) THEN OnRuleError(s1, field, error)
             ELSE RunRules(s1, field, rules, i + 1, normalizedValue)

\* if (!validationSchema || !validationSchema[field])
HasSchemaEntry(field) ==
    /\ Truthy(cfg.validationSchema)
    /\ Truthy(ObjGet(cfg.validationSchema.entries, field, Undefined))

\* a field without rules is treated as a field whose rules all pass
validateField_ClearsWithoutEntry(s, field) ==
    IF ~HasSchemaEntry(field) THEN OnAllRulesPass(s, field)
    ELSE LET rule == ObjGet(cfg.validationSchema.entries, field, Undefined)
             value == ObjGet(s.values, field, Undefined)
         IN  RunRules(s, field, RulesOf(rule), 1, Normalize(value))

validateField(s, field) ==
    IF ~HasSchemaEntry(field) THEN [st |-> s, ret |-> TRUE]
    ELSE LET rule == ObjGet(cfg.validationSchema.entries, field, Undefined)
             value == ObjGet(s.values, field, Undefined)
         IN  RunRules(s, field, RulesOf(rule), 1, Normalize(value))

\* touched replaced by the keys of values instead of extended by them
TouchAll_Replaces(s) == [s EXCEPT !.touched = SeqToSet(ObjKeys(s.values))]

\* only the fields that have rules are marked
TouchAll_SchemaOnly(s) ==
    [s EXCEPT !.touched = @ \cup {k \in SeqToSet(ObjKeys(s.values)) : HasSchemaEntry(k)}]

\* Object.keys(values).forEach((key) => touched.add(key))
TouchAll(s) == [s EXCEPT !.touched = @ \cup SeqToSet(ObjKeys(s.values))]

\* the loop over the schema keys leaving at the first field that fails
RECURSIVE ValidateEach_StopsAtFirst(_, _, _, _)
ValidateEach_StopsAtFirst(s, keys, i, isFormValid) ==
    IF i > Len(keys) THEN [st |-> s, ret |-> isFormValid]
    ELSE LET r == validateField(s, keys[i])
         IN  IF ~r.ret THEN r
             ELSE ValidateEach_StopsAtFirst(r.st, keys, i + 1, isFormValid)

\* Object.keys(validationSchema).forEach((key) => { if (!validateField(key)) ... })
RECURSIVE ValidateEach(_, _, _, _)
ValidateEach(s, keys, i, isFormValid) ==
    IF i > Len(keys) THEN [st |-> s, ret |-> isFormValid]
    ELSE LET r == validateField(s, keys[i])
         IN  ValidateEach(r.st, keys, i + 1, IF ~r.ret THEN FALSE ELSE isFormValid)

\* only the fields touched before the call are validated, then all are marked
validateForm_TouchedOnly(s) ==
    IF ~Truthy(cfg.validationSchema) THEN [st |-> TouchAll(s), ret |-> TRUE]
    ELSE LET keys == SelectSeq(ObjKeys(cfg.validationSchema.entries),
                               LAMBDA k : k \in s.touched)
             r == ValidateEach(s, keys, 1, TRUE)
         IN  [st |-> TouchAll(r.st), ret |-> r.ret]

validateForm(s) ==
    LET s1 == TouchAll(s)
    IN  IF ~Truthy(cfg.validationSchema) THEN [st |-> s1, ret |-> TRUE]
        ELSE ValidateEach(s1, ObjKeys(cfg.validationSchema.entries), 1, TRUE)

\* an error set by hand also marks the field as touched
setError_Touches(s, field, error) ==
    [s EXCEPT !.errors = ObjSet(@, field, error), !.touched = @ \cup {field}]

setError(s, field, error) == [s EXCEPT !.errors = ObjSet(@, field, error)]

clearError(s, field) == [s EXCEPT !.errors = ObjDelete(@, field)]

\* dirty means "differs from the value before"
setValue_DirtyIfChanged(s, field, value) ==
    LET s1 == [s EXCEPT !.values = ObjSet(@, field, value),
                        !.dirty = IF ObjGet(s.values, field, Undefined) = value
                                  THEN @ ELSE @ \cup {field}]
    IN  IF cfg.validateOnChange /\ field \in s1.touched
        THEN validateField(clearError(s1, field), field).st
        ELSE s1

\* validation on change without the clearError(field) before it
setValue_NoClear(s, field, value) ==
    LET s1 == [s EXCEPT !.values = ObjSet(@, field, value),
                        !.dirty = @ \cup {field}]
    IN  IF cfg.validateOnChange /\ field \in s1.touched
        THEN validateField(s1, field).st
        ELSE s1

\* validation on change whether or not the field is touched
setValue_AlwaysValidates(s, field, value) ==
    LET s1 == [s EXCEPT !.values = ObjSet(@, field, value),
                        !.dirty = @ \cup {field}]
    IN  IF cfg.validateOnChange
        THEN validateField(clearError(s1, field), field).st
        ELSE s1

\* a change handler that stores the value and validates nothing
handleChange_StoresOnly(s, field, value) ==
    [s EXCEPT !.values = ObjSet(@, field, value), !.dirty = @ \cup {field}]

setValue(s, field, value) ==
    LET s1 == [s EXCEPT !.values = ObjSet(@, field, value),
                        !.dirty = @ \cup {field}]
    IN  IF cfg.validateOnChange /\ field \in s1.touched
        THEN validateField(clearError(s1, field), field).st
        ELSE s1

handleChange(s, field, value) == setValue(s, field, value)

\* validation on blur whatever the validateOnBlur option says
handleBlur_AlwaysValidates(s, field) ==
    validateField([s EXCEPT !.touched = @ \cup {field}], field).st

\* validation on blur only the first time the field is left
handleBlur_FirstBlurOnly(s, field) ==
    LET s1 == [s EXCEPT !.touched = @ \cup {field}]
    IN  IF cfg.validateOnBlur /\ field \notin s.touched
        THEN validateField(s1, field).st ELSE s1

handleBlur(s, field) ==
    LET s1 == [s EXCEPT !.touched = @ \cup {field}]
    IN  IF cfg.validateOnBlur THEN validateField(s1, field).st ELSE s1

\* Object.keys(initialValues).forEach((key) => { values[key] = initialValues[key] })
RECURSIVE RestoreValues(_, _, _)
RestoreValues(vals, initial, i) ==
    IF i > Len(initial) THEN vals
    ELSE RestoreValues(ObjSet(vals, initial[i].k, initial[i].v), initial, i + 1)

\* Object.keys(errors).forEach((key) => { delete errors[key] })
RECURSIVE DeleteKeys(_, _, _)
DeleteKeys(errs, keys, i) ==
    IF i > Len(keys) THEN errs
    ELSE DeleteKeys(ObjDelete(errs, keys[i]), keys, i + 1)

\* a reset that also drops the submitting flag
reset_ClearsSubmitting(s) ==
    [s EXCEPT !.values = RestoreValues(@, cfg.initialValues, 1),
              !.errors = DeleteKeys(@, ObjKeys(@), 1),
              !.touched = {},
              !.dirty = {},
              !.isSubmitting = FALSE]

reset(s) ==
    [s EXCEPT !.values = RestoreValues(@, cfg.initialValues, 1),
              !.errors = DeleteKeys(@, ObjKeys(@), 1),
              !.touched = {},
              !.dirty = {}]

resetErrors(s) == [s EXCEPT !.errors = DeleteKeys(@, ObjKeys(@), 1)]

-----------------------------------------------------------------------------
(* handleSubmit.  The function runs synchronously up to the call of the    *)
(* submit callback (line 207), which is code of the caller: the model      *)
(* stops there (turn = "invoke") and InvokeCallback continues.  The await  *)
(* suspends the function; SubmitSettle is its continuation.                *)

\* const firstErrorField = Object.keys(errors)[0]
FirstErrorField(errs) ==
    IF Len(errs) > 0 THEN Str(ObjKeys(errs)[1]) ELSE Undefined

\* scrollToFirstError(): the element scrollIntoView() is called on and the
\* element the focus timer is set for (undefined: no call, no timer)
scrollToFirstError(errs, refs) ==
    LET firstErrorField == FirstErrorField(errs)
        none == [scrolled |-> Undefined, timer |-> Undefined]
    IN  IF Truthy(firstErrorField)
        THEN LET ref == ObjGet(refs, firstErrorField.v, Undefined)
             IN  IF Truthy(ref)
                 THEN [scrolled |-> ref,
                       timer |-> IF ref.t = "element" THEN ref ELSE Undefined]
                 ELSE none
        ELSE none

\* if (ref) fieldRefs.set(field, ref); else fieldRefs.delete(field);
registerFieldRef(refs, field, ref) ==
    IF Truthy(ref) THEN ObjSet(refs, field, ref) ELSE ObjDelete(refs, field)

\* () => ref.focus(): the element focus() is called on
focusStep(ref) == ref

\* a guard against a second submission: nothing is done while one is running
handleSubmitEntry_Guarded(s) ==
    IF s.isSubmitting THEN [st |-> s, valid |-> FALSE]
    ELSE LET r == validateForm([s EXCEPT !.isSubmitting = TRUE])
         IN  IF ~r.ret
             THEN [st |-> [r.st EXCEPT !.isSubmitting = FALSE], valid |-> FALSE]
             ELSE [st |-> r.st, valid |-> TRUE]

\* the callback is reached without validateForm()
handleSubmitEntry_SkipsValidation(s) ==
    [st |-> [s EXCEPT !.isSubmitting = TRUE], valid |-> TRUE]

\* the failure path returns without releasing the flag
handleSubmitEntry_KeepsFlag(s) ==
    LET r == validateForm([s EXCEPT !.isSubmitting = TRUE])
    IN  [st |-> r.st, valid |-> r.ret]

\* the flag is never raised
handleSubmitEntry_NoFlag(s) ==
    LET r == validateForm(s)
    IN  IF ~r.ret
        THEN [st |-> [r.st EXCEPT !.isSubmitting = FALSE], valid |-> FALSE]
        ELSE [st |-> r.st, valid |-> TRUE]

\* isSubmitting = true; if (!validateForm()) { isSubmitting = false; ...; return; }
handleSubmitEntry(s) ==
    LET r == validateForm([s EXCEPT !.isSubmitting = TRUE])
    IN  IF ~r.ret
        THEN [st |-> [r.st EXCEPT !.isSubmitting = FALSE], valid |-> FALSE]
        ELSE [st |-> r.st, valid |-> TRUE]

\* a catch block that logs and throws the error again
handleSubmitCatch_Rethrows(s) == [st |-> s, logged |-> TRUE, rethrown |-> TRUE]

\* catch (error) { console.error('Form submission error:', error); }
\* what the catch block does with the failure of the callback
handleSubmitCatch(s) == [st |-> s, logged |-> TRUE, rethrown |-> FALSE]

\* no finally block: the flag is released nowhere after the callback
handleSubmitFinally_Missing(s) == s

\* finally { isSubmitting = false; }
handleSubmitFinally(s) == [s EXCEPT !.isSubmitting = FALSE]

\* the try statement, entered with the outcome of `await onSubmit?.(values)`:
\* failed = the callback threw or its promise rejected
handleSubmitTry(s, failed) ==
    LET c == IF failed THEN handleSubmitCatch(s)
             ELSE [st |-> s, logged |-> FALSE, rethrown |-> FALSE]
    IN  [st |-> handleSubmitFinally(c.st), logged |-> c.logged,
         promise |-> IF c.rethrown THEN "rejected" ELSE "fulfilled"]

-----------------------------------------------------------------------------
(* Configurations: the options createForm is called with.  `inputs` are    *)
(* the <<field, value>> pairs the UI writes, `fields` the field names it   *)
(* uses.                                                                   *)

Schema(entries) == [t |-> "object", entries |-> entries]

\* the password field of the example in the createForm documentation
CfgLogin ==
    [initialValues |-> <<[k |-> "password", v |-> Str("")]>>,
     validationSchema |-> Schema(<<
         [k |-> "password", v |-> Arr(<<ruleRequired, ruleMinLength(8)>>)]>>),
     onSubmit |-> Fn("onSubmit"),
     validateOnChange |-> TRUE,
     validateOnBlur |-> TRUE,
     fields |-> {"password"},
     inputs |-> {<<"password", Str("")>>, <<"password", Str("short")>>,
                 <<"password", Str("longenough")>>}]

\* two rules that always fail, and a single rule that is not in a list
CfgCodes ==
    [initialValues |-> <<[k |-> "code", v |-> Str("")], [k |-> "pin", v |-> Str("")]>>,
     validationSchema |-> Schema(<<
         [k |-> "code", v |-> Arr(<<ruleCustom(Str("A")), ruleCustom(Str("B"))>>)],
         [k |-> "pin", v |-> ruleRequired]>>),
     onSubmit |-> Undefined,
     validateOnChange |-> TRUE,
     validateOnBlur |-> TRUE,
     fields |-> {"code", "pin"},
     inputs |-> {<<"code", Str("x")>>, <<"pin", Str("1")>>, <<"pin", Str("")>>}]

\* a field without a schema entry, beside a schema entry for a field that
\* is not among the values
CfgNote ==
    [initialValues |-> <<[k |-> "note", v |-> Str("")]>>,
     validationSchema |-> Schema(<<[k |-> "pin", v |-> ruleRequired]>>),
     onSubmit |-> Undefined,
     validateOnChange |-> TRUE,
     validateOnBlur |-> TRUE,
     fields |-> {"note", "pin"},
     inputs |-> {<<"note", Str("n")>>, <<"pin", Str("")>>}]

\* a field whose `required` rule is not the first of its rules and whose
\* value may be null or undefined, beside a field without a schema entry
CfgProfile ==
    [initialValues |-> <<[k |-> "bio", v |-> Null], [k |-> "nick", v |-> Str("")]>>,
     validationSchema |-> Schema(<<
         [k |-> "bio", v |-> Arr(<<ruleMinLength(8), ruleRequired>>)]>>),
     onSubmit |-> Undefined,
     validateOnChange |-> TRUE,
     validateOnBlur |-> TRUE,
     fields |-> {"bio", "nick"},
     inputs |-> {<<"bio", Undefined>>, <<"bio", Str("")>>,
                 <<"bio", Str("longenough")>>, <<"nick", Str("bob")>>}]

\* no schema, no callback, no validation on change or blur
CfgPlain ==
    [initialValues |-> <<[k |-> "name", v |-> Str("")]>>,
     validationSchema |-> Undefined,
     onSubmit |-> Undefined,
     validateOnChange |-> FALSE,
     validateOnBlur |-> FALSE,
     fields |-> {"name", "extra"},
     inputs |-> {<<"name", Str("x")>>, <<"extra", Str("y")>>}]

\* a schema, and validation neither on change nor on blur
CfgManual ==
    [initialValues |-> <<[k |-> "pin", v |-> Str("")]>>,
     validationSchema |-> Schema(<<[k |-> "pin", v |-> ruleRequired]>>),
     onSubmit |-> Undefined,
     validateOnChange |-> FALSE,
     validateOnBlur |-> FALSE,
     fields |-> {"pin"},
     inputs |-> {<<"pin", Str("")>>, <<"pin", Str("1")>>}]

\* the password confirmation of the signup example: a rule that reads
\* another field
CfgConfirm ==
    [initialValues |-> <<[k |-> "password", v |-> Str("")],
                         [k |-> "confirmPassword", v |-> Str("")]>>,
     validationSchema |-> Schema(<<
         [k |-> "password", v |-> ruleRequired],
         [k |-> "confirmPassword",
          v |-> Arr(<<ruleMatches("password", Str("Passwords must match"))>>)]>>),
     onSubmit |-> Undefined,
     validateOnChange |-> TRUE,
     validateOnBlur |-> TRUE,
     fields |-> {"password", "confirmPassword"},
     inputs |-> {<<"password", Str("secret1")>>, <<"password", Str("secret2")>>,
                 <<"confirmPassword", Str("secret1")>>,
                 <<"confirmPassword", Str("secret2")>>}]

\* the rules an optional field is given, one at a time
OptionalRules ==
    {ruleAlphabetsOnly, ruleEmail, ruleMinLength(8), ruleMaxLength(3), ruleNumber,
     ruleMin(18), ruleMax(18), ruleMatches("other", Undefined)}

\* an optional field: one rule, no `required`
CfgOptional(rule) ==
    [initialValues |-> <<[k |-> "value", v |-> Str("")], [k |-> "other", v |-> Str("abc")]>>,
     validationSchema |-> Schema(<<[k |-> "value", v |-> rule]>>),
     onSubmit |-> Undefined,
     validateOnChange |-> TRUE,
     validateOnBlur |-> TRUE,
     fields |-> {"value"},
     inputs |-> {<<"value", Null>>, <<"value", Undefined>>, <<"value", Str("")>>,
                 <<"value", Str("abc")>>, <<"value", Str("a@b.co")>>,
                 <<"value", Str("5")>>, <<"value", Str("18")>>}]

Configs == {CfgLogin, CfgCodes, CfgNote, CfgProfile, CfgPlain, CfgManual}

\* the messages setError() is called with
ErrMsgs == {Str(""), Str("Server error")}

-----------------------------------------------------------------------------
(* The state machine.                                                      *)

\* `last`: the operation, its field argument, its return value, the rule
\* calls it made (log) and the values they were given (seen); `again` when
\* validateForm() directly follows a validateForm(); for handleSubmit the branch taken (valid) and the state of
\* the promise it returned; for the callback the argument it was given; for
\* the try statement whether console.error was called
Op(name, field, ret, log) ==
    [op |-> name, field |-> field, ret |-> ret, log |-> log,
     valid |-> Undefined, arg |-> Undefined, logged |-> FALSE, promise |-> "none",
     seen |-> <<>>, again |-> FALSE, scrolled |-> Undefined, focused |-> Undefined]

\* the engine state s becomes the state of the form; isValid is re-derived
Commit(s, l) ==
    /\ values' = s.values
    /\ errors' = s.errors
    /\ touched' = s.touched
    /\ dirty' = s.dirty
    /\ isSubmitting' = s.isSubmitting
    /\ isValid' = IsValidOf(s.values, s.errors)
    /\ last' = [l EXCEPT !.seen = s.seen]
    /\ cfg' = cfg

\* the form createForm(c) returns
InitOf(c) ==
    /\ cfg = c
    /\ values = cfg.initialValues
    /\ errors = <<>>
    /\ touched = {}
    /\ dirty = {}
    /\ isSubmitting = FALSE
    /\ isValid = IsValidOf(cfg.initialValues, <<>>)
    /\ turn = "idle"
    /\ awaiting = 0
    /\ callCount = 0
    /\ timers = 0
    /\ fieldRefs = <<>>
    /\ focusTimers = <<>>
    /\ last = Op("createForm", "", Undefined, <<>>)

Init == \E c \in Configs : InitOf(c)

Idle == turn = "idle"

SetValue ==
    /\ Idle
    /\ \E in \in cfg.inputs :
         LET s == setValue(St, in[1], in[2])
         IN  Commit(s, Op("setValue", in[1], Undefined, s.log))
    /\ UNCHANGED <<turn, awaiting, callCount, timers, fieldRefs, focusTimers>>

HandleChange ==
    /\ Idle
    /\ \E in \in cfg.inputs :
         LET s == handleChange(St, in[1], in[2])
         IN  Commit(s, Op("handleChange", in[1], Undefined, s.log))
    /\ UNCHANGED <<turn, awaiting, callCount, timers, fieldRefs, focusTimers>>

HandleBlur ==
    /\ Idle
    /\ \E f \in cfg.fields :
         LET s == handleBlur(St, f)
         IN  Commit(s, Op("handleBlur", f, Undefined, s.log))
    /\ UNCHANGED <<turn, awaiting, callCount, timers, fieldRefs, focusTimers>>

ValidateField ==
    /\ Idle
    /\ \E f \in cfg.fields :
         LET r == validateField(St, f)
         IN  Commit(r.st, Op("validateField", f, Bool(r.ret), r.st.log))
    /\ UNCHANGED <<turn, awaiting, callCount, timers, fieldRefs, focusTimers>>

ValidateForm ==
    /\ Idle
    /\ LET r == validateForm(St)
       IN  Commit(r.st, [Op("validateForm", "", Bool(r.ret), r.st.log) EXCEPT
                           !.again = (last.op = "validateForm")])
    /\ UNCHANGED <<turn, awaiting, callCount, timers, fieldRefs, focusTimers>>

SetError ==
    /\ Idle
    /\ \E f \in cfg.fields, m \in ErrMsgs :
         Commit(setError(St, f, m), [Op("setError", f, Undefined, <<>>) EXCEPT !.arg = m])
    /\ UNCHANGED <<turn, awaiting, callCount, timers, fieldRefs, focusTimers>>

ClearError ==
    /\ Idle
    /\ \E f \in cfg.fields :
         Commit(clearError(St, f), Op("clearError", f, Undefined, <<>>))
    /\ UNCHANGED <<turn, awaiting, callCount, timers, fieldRefs, focusTimers>>

Reset ==
    /\ Idle
    /\ Commit(reset(St), Op("reset", "", Undefined, <<>>))
    /\ UNCHANGED <<turn, awaiting, callCount, timers, fieldRefs, focusTimers>>

ResetErrors ==
    /\ Idle
    /\ Commit(resetErrors(St), Op("resetErrors", "", Undefined, <<>>))
    /\ UNCHANGED <<turn, awaiting, callCount, timers, fieldRefs, focusTimers>>

\* the failure path calls scrollToFirstError() itself instead of setting a timer
HandleSubmit_ScrollsNow ==
    /\ Idle
    /\ callCount < MaxCalls
    /\ awaiting < MaxInFlight
    /\ LET r == handleSubmitEntry(St)
           sc == IF r.valid THEN [scrolled |-> Undefined, timer |-> Undefined]
                 ELSE scrollToFirstError(r.st.errors, fieldRefs)
       IN  /\ sc.timer = Undefined \/ Len(focusTimers) < MaxFocus
           /\ Commit(r.st, [Op("handleSubmit", "", Undefined, r.st.log) EXCEPT
                               !.valid = Bool(r.valid),
                               !.promise = IF r.valid THEN "pending" ELSE "fulfilled",
                               !.scrolled = sc.scrolled])
           /\ turn' = IF r.valid THEN "invoke" ELSE "idle"
           /\ focusTimers' = IF sc.timer = Undefined THEN focusTimers
                             ELSE Append(focusTimers, sc.timer)
    /\ UNCHANGED <<awaiting, callCount, timers, fieldRefs>>

\* lines 195-204: up to the return of the failure path, or to the callback
HandleSubmit ==
    /\ Idle
    /\ callCount < MaxCalls
    /\ awaiting < MaxInFlight
    /\ LET r == handleSubmitEntry(St)
       IN  /\ Commit(r.st, [Op("handleSubmit", "", Undefined, r.st.log) EXCEPT
                               !.valid = Bool(r.valid),
                               !.promise = IF r.valid THEN "pending" ELSE "fulfilled"])
           /\ turn' = IF r.valid THEN "invoke" ELSE "idle"
           /\ timers' = IF r.valid THEN timers
                        ELSE IF timers < MaxTimers THEN timers + 1 ELSE timers
    /\ UNCHANGED <<awaiting, callCount, fieldRefs, focusTimers>>

\* line 207, the call: the callback returns (a promise or nothing) and the
\* await suspends handleSubmit, or the callback throws
InvokeCallback ==
    /\ turn = "invoke"
    /\ turn' = "idle"
    /\ IF ~Truthy(cfg.onSubmit)
       THEN /\ Commit(St, [Op("await", "", Undefined, <<>>) EXCEPT !.promise = "pending"])
            /\ awaiting' = awaiting + 1
            /\ callCount' = callCount
       ELSE /\ callCount' = callCount + 1
            /\ \/ /\ Commit(St, [Op("callback", "", Undefined, <<>>) EXCEPT
                                   !.arg = values, !.promise = "pending"])
                  /\ awaiting' = awaiting + 1
               \/ LET c == handleSubmitTry(St, TRUE)
                  IN  /\ Commit(c.st, [Op("callbackThrew", "", Undefined, <<>>) EXCEPT
                                         !.arg = values, !.logged = c.logged,
                                         !.promise = c.promise])
                      /\ awaiting' = awaiting
    /\ UNCHANGED <<timers, fieldRefs, focusTimers>>

\* line 207, the await resumes: the awaited value is there, or the promise
\* of the callback rejected
SubmitSettle ==
    /\ Idle
    /\ awaiting > 0
    /\ awaiting' = awaiting - 1
    /\ \E failed \in (IF Truthy(cfg.onSubmit) THEN BOOLEAN ELSE {FALSE}) :
         LET c == handleSubmitTry(St, failed)
         IN  Commit(c.st, [Op(IF failed THEN "rejected" ELSE "resolved", "",
                              Undefined, <<>>) EXCEPT
                             !.logged = c.logged, !.promise = c.promise])
    /\ UNCHANGED <<turn, callCount, timers, fieldRefs, focusTimers>>

\* what a scrollToFirstError() run leaves: the scroll request, and the focus
\* timer it sets
Scrolled(name, r) ==
    /\ r.timer = Undefined \/ Len(focusTimers) < MaxFocus
    /\ Commit(St, [Op(name, "", Undefined, <<>>) EXCEPT !.scrolled = r.scrolled])
    /\ focusTimers' = IF r.timer = Undefined THEN focusTimers
                      ELSE Append(focusTimers, r.timer)

\* the timer of line 202 fires: scrollToFirstError() runs
ScrollTimerFire ==
    /\ Idle
    /\ timers > 0
    /\ timers' = timers - 1
    /\ Scrolled("scrollTimer", scrollToFirstError(errors, fieldRefs))
    /\ UNCHANGED <<turn, awaiting, callCount, fieldRefs>>

\* a call of scrollToFirstError() by the UI
ScrollToFirstError ==
    /\ Idle
    /\ Scrolled("scrollToFirstError", scrollToFirstError(errors, fieldRefs))
    /\ UNCHANGED <<turn, awaiting, callCount, timers, fieldRefs>>

\* the UI mounts the element of a field, or unmounts it (ref = null)
RegisterFieldRef ==
    /\ Idle
    /\ \E f \in cfg.fields : \E ref \in {Element(f), Null} :
         /\ fieldRefs' = registerFieldRef(fieldRefs, f, ref)
         /\ Commit(St, [Op("registerFieldRef", f, Undefined, <<>>) EXCEPT !.arg = ref])
    /\ UNCHANGED <<turn, awaiting, callCount, timers, focusTimers>>

\* the timer of line 175 fires
FocusTimerFire ==
    /\ Idle
    /\ Len(focusTimers) > 0
    /\ focusTimers' = Tail(focusTimers)
    /\ Commit(St, [Op("focusTimer", "", Undefined, <<>>) EXCEPT
                     !.focused = focusStep(Head(focusTimers))])
    /\ UNCHANGED <<turn, awaiting, callCount, timers, fieldRefs>>

Next ==
    \/ SetValue
    \/ HandleChange
    \/ HandleBlur
    \/ ValidateField
    \/ ValidateForm
    \/ SetError
    \/ ClearError
    \/ Reset
    \/ ResetErrors
    \/ HandleSubmit
    \/ InvokeCallback
    \/ SubmitSettle
    \/ ScrollTimerFire

Spec == Init /\ [][Next]_vars

\* The form with its elements: the UI registers and removes refs, calls
\* scrollToFirstError() and lets the timers fire.
InitScroll ==
    /\ Init
    /\ cfg = CfgCodes

NextScroll ==
    \/ ValidateField
    \/ ValidateForm
    \/ SetError
    \/ ClearError
    \/ HandleSubmit
    \/ ScrollTimerFire
    \/ ScrollToFirstError
    \/ RegisterFieldRef
    \/ FocusTimerFire

SpecScroll == InitScroll /\ [][NextScroll]_vars

\* The signup form: values are written, fields are left, the form is
\* validated and reset; errors are never set or cleared by hand.
InitConfirm == InitOf(CfgConfirm)

NextConfirm ==
    \/ SetValue
    \/ HandleBlur
    \/ ValidateForm
    \/ Reset

SpecConfirm == InitConfirm /\ [][NextConfirm]_vars

\* A form with one optional field under one built-in rule.
InitOptional == \E rule \in OptionalRules : InitOf(CfgOptional(rule))

NextOptional ==
    \/ SetValue
    \/ ValidateField

SpecOptional == InitOptional /\ [][NextOptional]_vars

-----------------------------------------------------------------------------
(* Properties.                                                             *)

\* a handleSubmit call has just completed: the promise it returned settled
SubmitCompleted == last.promise \in {"fulfilled", "rejected"}

\* C1: in every reachable state isValid is true if and only if every key of
\* values has no entry, or a falsy entry, in errors.
C1_IsValidIffNoTruthyError ==
    isValid <=>
        \A i \in 1..Len(values) :
            \/ ~ObjHas(errors, values[i].k)
            \/ ObjGet(errors, values[i].k, Undefined) = Str("")

\* C1 witness: a key of values has a falsy (empty) entry in errors, and
\* isValid is true.
C1_Witness ==
    /\ last.op = "setError"
    /\ \E i \in 1..Len(values) : ObjGet(errors, values[i].k, Undefined) = Str("")
    /\ isValid

\* C2: when validateForm() returns false inside handleSubmit(), the callback
\* is not invoked (the call count does not move, no invocation is pending)
\* and isSubmitting is false when handleSubmit has completed.
C2_SubmitShortCircuit ==
    [][(last'.op = "handleSubmit" /\ last'.valid = Bool(FALSE)) =>
          /\ callCount' = callCount
          /\ turn' = "idle"
          /\ awaiting' = awaiting
          /\ last'.promise = "fulfilled"
          /\ isSubmitting' = FALSE]_vars

\* C2 witness: a callback is configured, handleSubmit() failed validation and
\* the call count is still 0.
C2_Witness ==
    /\ Truthy(cfg.onSubmit)
    /\ last.op = "handleSubmit"
    /\ last.valid = Bool(FALSE)
    /\ callCount = 0
    /\ ~isSubmitting

\* C3: on a valid form handleSubmit() raises isSubmitting before the callback
\* is invoked and it is still raised when the call returns to its caller;
\* the callback is invoked exactly once, with the values as they are at that
\* moment; isSubmitting is false after the awaited callback resolves.
C3_SubmitSuccessPath ==
    [][/\ (last'.op = "handleSubmit" /\ last'.valid = Bool(TRUE)) =>
              /\ isSubmitting'
              /\ turn' = "invoke"
              /\ callCount' = callCount
       /\ (turn = "invoke" /\ Truthy(cfg.onSubmit)) =>
              /\ isSubmitting
              /\ callCount' = callCount + 1
              /\ last'.arg = values
              /\ values' = values
              /\ last'.op = "callback" => isSubmitting'
       /\ callCount' # callCount => turn = "invoke"
       /\ last'.op = "resolved" =>
              /\ ~isSubmitting'
              /\ callCount' = callCount]_vars

\* C3 witness: one valid handleSubmit() ran to the end: the callback was
\* invoked once and has resolved.
C3_Witness ==
    /\ last.op = "resolved"
    /\ Truthy(cfg.onSubmit)
    /\ callCount = 1
    /\ awaiting = 0
    /\ ~isSubmitting

\* C4: on every path through handleSubmit() isSubmitting is false once the
\* call has completed, and it is never left raised when no call is under way.
C4_SubmittingReleased ==
    /\ SubmitCompleted => ~isSubmitting
    /\ (turn = "idle" /\ awaiting = 0) => ~isSubmitting

\* C4 witness: the callback threw and the flag is down.
C4_Witness ==
    /\ last.op = "callbackThrew"
    /\ ~isSubmitting
    /\ awaiting = 0

\* C5: when the callback throws or rejects, the promise of handleSubmit() is
\* fulfilled, not rejected, and the errors map is what it was.
C5_CallbackFailureSwallowed ==
    [][last'.op \in {"callbackThrew", "rejected"} =>
          /\ last'.promise = "fulfilled"
          /\ last'.logged
          /\ errors' = errors]_vars

\* C5 witness: the promise of the callback rejected while errors has an
\* entry, and handleSubmit() completed normally.
C5_Witness ==
    /\ last.op = "rejected"
    /\ last.promise = "fulfilled"
    /\ Len(errors) > 0

\* two objects with the same keys and the same value under each key
DeepEquals(a, b) ==
    /\ SeqToSet(ObjKeys(a)) = SeqToSet(ObjKeys(b))
    /\ \A i \in 1..Len(a) : ObjGet(b, a[i].k, Undefined) = a[i].v

\* C6: after reset() values deep-equals the initial values, errors, touched
\* and dirty are empty and isValid is true.
C6_ResetRestoresInitialState ==
    last.op = "reset" =>
        /\ DeepEquals(values, cfg.initialValues)
        /\ Len(errors) = 0
        /\ touched = {}
        /\ dirty = {}
        /\ isValid

C8_TouchedDirtyMonotonic ==
    [][last'.op # "reset" => (touched \subseteq touched' /\ dirty \subseteq dirty')]_vars

\* C8 witness: validateForm() ran with a touched field that is not a key of
\* values, and a dirty field.
C8_Witness ==
    /\ last.op = "validateForm"
    /\ \E f \in touched : ~ObjHas(values, f)
    /\ dirty # {}

\* f has no rules: no schema is configured, or the schema has no key f
NoSchemaEntry(f) ==
    \/ cfg.validationSchema = Undefined
    \/ ~ObjHas(cfg.validationSchema.entries, f)

\* C9: validateField(f) of a field without a schema entry returns true and
\* leaves the errors map as it was.
C9_SchemalessFieldValid ==
    [][(last'.op = "validateField" /\ NoSchemaEntry(last'.field)) =>
          /\ last'.ret = Bool(TRUE)
          /\ errors' = errors
          /\ last'.log = <<>>]_vars

\* C9 witness: a schema is configured, f has no entry in it, f carries an
\* injected error and validateField(f) has run.
C9_Witness ==
    /\ last.op = "validateField"
    /\ cfg.validationSchema # Undefined
    /\ NoSchemaEntry(last.field)
    /\ ObjGet(errors, last.field, Undefined) = Str("Server error")

\* the rules declared for f, a single rule being a list of one
DeclaredRules(f) ==
    LET e == ObjGet(cfg.validationSchema.entries, f, Undefined)
    IN  IF e.t = "array" THEN e.items ELSE <<e>>

\* the indices of the rules of f that reject the current value of f
FailingRules(f) ==
    {i \in 1..Len(DeclaredRules(f)) :
        Truthy(ApplyRule(DeclaredRules(f)[i],
                         Normalize(ObjGet(values, f, Undefined)), values))}

MinOf(S) == CHOOSE m \in S : \A n \in S : m <= n

\* C10: validateField(f) calls the rules of f in declared order up to the
\* first that fails and no further; errors[f] is the message of that rule.
C10_FirstFailureWins ==
    (last.op = "validateField" /\ ~NoSchemaEntry(last.field)) =>
        LET f == last.field
            n == IF FailingRules(f) = {} THEN Len(DeclaredRules(f))
                 ELSE MinOf(FailingRules(f))
        IN  /\ last.log = [i \in 1..n |-> <<f, i>>]
            /\ FailingRules(f) # {} =>
                  /\ last.ret = Bool(FALSE)
                  /\ ObjGet(errors, f, Undefined) =
                        ApplyRule(DeclaredRules(f)[n],
                                  Normalize(ObjGet(values, f, Undefined)), values)

\* C10 witness: both rules of "code" reject the value; the first was called,
\* the second was not, and errors.code is the message of the first.
C10_Witness ==
    /\ last.op = "validateField"
    /\ last.field = "code"
    /\ FailingRules("code") = {1, 2}
    /\ last.log = <<<<"code", 1>>>>
    /\ ObjGet(errors, "code", Undefined) = Str("A")

\* errors[f], undefined when f has no entry
ErrorOf(f) == ObjGet(errors, f, Undefined)

\* what the rules of f say about the current value of f: the message of the
\* first rule that rejects it, undefined when none does or f has no rules
VerdictOf(f) ==
    IF NoSchemaEntry(f) THEN Undefined
    ELSE IF FailingRules(f) = {} THEN Undefined
    ELSE ApplyRule(DeclaredRules(f)[MinOf(FailingRules(f))],
                   Normalize(ObjGet(values, f, Undefined)), values)

IncludesRequired(f) ==
    \E i \in 1..Len(DeclaredRules(f)) : DeclaredRules(f)[i].name = "required"

IsEmptyValue(v) == v = Str("") \/ v = Null \/ v = Undefined

\* C11: when the rules of f include required, at any position, and values[f]
\* is "", null or undefined, validateField(f) returns false, errors[f] is set
\* and every rule called was given "".
C11_RequiredRejectsEmpty ==
    (/\ last.op = "validateField"
     /\ ~NoSchemaEntry(last.field)
     /\ IncludesRequired(last.field)
     /\ IsEmptyValue(ObjGet(values, last.field, Undefined))) =>
        /\ last.ret = Bool(FALSE)
        /\ Truthy(ErrorOf(last.field))
        /\ Len(last.seen) > 0
        /\ \A i \in 1..Len(last.seen) : last.seen[i] = Str("")

\* C11 witness: required is the second rule of "bio", bio is undefined, and
\* validateField("bio") stored the message of required.
C11_Witness ==
    /\ last.op = "validateField"
    /\ last.field = "bio"
    /\ ObjGet(values, "bio", Null) = Undefined
    /\ last.log = <<<<"bio", 1>>, <<"bio", 2>>>>
    /\ ErrorOf("bio") = Str(RequiredMsg)

\* C12: for a field with a schema entry validateField(f) returns true exactly
\* when errors has no entry for f afterwards; true means all rules pass, and
\* false leaves the non-empty message of the failing rule.
C12_ReturnMatchesEntry ==
    (last.op = "validateField" /\ ~NoSchemaEntry(last.field)) =>
        /\ last.ret = Bool(TRUE) <=> ~ObjHas(errors, last.field)
        /\ last.ret = Bool(TRUE) <=> FailingRules(last.field) = {}
        /\ last.ret = Bool(FALSE) =>
              /\ Truthy(ErrorOf(last.field))
              /\ ErrorOf(last.field) = VerdictOf(last.field)

\* C12 witness: validateField("password") passed and errors has no entry.
C12_Witness ==
    /\ last.op = "validateField"
    /\ last.field = "password"
    /\ last.ret = Bool(TRUE)
    /\ errors = <<>>
    /\ "password" \in dirty

\* C13: a validateForm() directly after a validateForm() returns the same
\* value and leaves errors (keys, messages, order) and touched as they were.
C13_ValidateFormIdempotent ==
    [][(last.op = "validateForm" /\ last'.op = "validateForm") =>
          /\ last'.ret = last.ret
          /\ errors' = errors
          /\ touched' = touched
          /\ values' = values]_vars

\* C13 witness: the second of two validateForm() calls in a row, with two
\* fields in error.
C13_Witness ==
    /\ last.op = "validateForm"
    /\ last.again
    /\ last.ret = Bool(FALSE)
    /\ Len(errors) = 2

\* C14: after validateForm(), and after handleSubmit() on both paths, every
\* key of values is in touched.
C14_AllFieldsTouched ==
    last.op \in {"validateForm", "handleSubmit", "await", "callback", "callbackThrew"} =>
        \A i \in 1..Len(values) : values[i].k \in touched

\* C14 witness: handleSubmit() failed validation and a field without a
\* schema entry is touched.
C14_Witness ==
    /\ last.op = "handleSubmit"
    /\ last.valid = Bool(FALSE)
    /\ cfg.validationSchema # Undefined
    /\ \E i \in 1..Len(values) : NoSchemaEntry(values[i].k) /\ values[i].k \in touched

\* the keys of the schema
SchemaKeys == SeqToSet(ObjKeys(cfg.validationSchema.entries))

\* C15: validateForm() validates every field of the schema, whatever the
\* others gave, and returns true exactly when none of them failed; without
\* a schema it returns true.
C15_ValidateFormAllFields ==
    last.op = "validateForm" =>
        IF cfg.validationSchema = Undefined
        THEN last.ret = Bool(TRUE) /\ last.log = <<>>
        ELSE /\ \A k \in SchemaKeys :
                   /\ \E j \in 1..Len(last.log) : last.log[j][1] = k
                   /\ ErrorOf(k) = VerdictOf(k)
             /\ last.ret = Bool(\A k \in SchemaKeys : FailingRules(k) = {})

\* C15 witness: both fields of the schema fail and both have their entry.
C15_Witness ==
    /\ last.op = "validateForm"
    /\ last.ret = Bool(FALSE)
    /\ ErrorOf("code") = Str("A")
    /\ ErrorOf("pin") = Str(RequiredMsg)

\* C16: dirty is empty at construction and after reset(), gains the field of
\* every setValue/handleChange call whatever the value, and is changed by
\* nothing else.
C16_DirtyIsWrittenFields ==
    /\ dirty = {}
    /\ [][/\ last'.op \in {"setValue", "handleChange"} =>
                dirty' = dirty \cup {last'.field}
          /\ last'.op = "reset" => dirty' = {}
          /\ last'.op \notin {"setValue", "handleChange", "reset"} =>
                dirty' = dirty]_vars

\* C16 witness: setValue() wrote the initial value again and the field is
\* dirty.
C16_Witness ==
    /\ last.op = "setValue"
    /\ values = cfg.initialValues
    /\ last.field \in dirty

\* C17: with validate-on-change, after setValue(f, v) of a touched f the
\* entry errors[f] is the verdict of the rules on the new value, and no
\* entry when f has no rules.
C17_ChangeRevalidatesTouched ==
    (/\ last.op \in {"setValue", "handleChange"}
     /\ cfg.validateOnChange
     /\ last.field \in touched) =>
        ErrorOf(last.field) = VerdictOf(last.field)

\* C17 witness: setValue() of a touched field without a schema entry, under
\* validate-on-change.
C17_Witness ==
    /\ last.op = "setValue"
    /\ cfg.validateOnChange
    /\ cfg.validationSchema # Undefined
    /\ NoSchemaEntry(last.field)
    /\ last.field \in touched
    /\ ~ObjHas(errors, last.field)

\* C18: with the default options, after setValue/handleChange(f, v) a
\* message in errors[f] is there only when the rules of f reject the new
\* value, and is then their message: an error f had before the change is gone.
C18_ChangeClearsError ==
    (/\ last.op \in {"setValue", "handleChange"}
     /\ cfg.validateOnChange
     /\ cfg.validateOnBlur
     /\ Truthy(ErrorOf(last.field))) =>
        ErrorOf(last.field) = VerdictOf(last.field)

\* C19: handleBlur(f) puts f in touched and, with validate-on-blur, runs the
\* rules of f: errors[f] is then the verdict on the current value.
C19_BlurTouchesAndValidates ==
    last.op = "handleBlur" =>
        /\ last.field \in touched
        /\ (cfg.validateOnBlur /\ ~NoSchemaEntry(last.field)) =>
              /\ Len(last.log) > 0
              /\ ErrorOf(last.field) = VerdictOf(last.field)

\* C19 witness: handleBlur() of a field with rules left the message of the
\* failing rule.
C19_Witness ==
    /\ last.op = "handleBlur"
    /\ cfg.validateOnBlur
    /\ ~NoSchemaEntry(last.field)
    /\ last.field \in dirty
    /\ Truthy(ErrorOf(last.field))

\* C20: a handleChange(f, v) step ends in the state setValue(f, v) gives from
\* the same state.
C20_HandleChangeIsSetValue ==
    [][last'.op = "handleChange" =>
          LET s == setValue(St, last'.field, ObjGet(values', last'.field, Undefined))
          IN  /\ values' = s.values
              /\ errors' = s.errors
              /\ touched' = s.touched
              /\ dirty' = s.dirty
              /\ isSubmitting' = s.isSubmitting
              /\ last'.log = s.log]_vars

\* C20 witness: handleChange() of a touched field ran its rules and left an
\* error.
C20_Witness ==
    /\ last.op = "handleChange"
    /\ last.field \in touched
    /\ Len(last.log) > 0
    /\ Truthy(ErrorOf(last.field))

\* the entries of errors other than that of f are the same in both maps
SameElsewhere(a, b, f) ==
    ObjDelete(a, f) = ObjDelete(b, f)

\* C21: setError(f, m) makes errors[f] = m, over any previous entry;
\* clearError(f) removes the entry of f and nothing when there is none;
\* resetErrors() empties errors; the three leave values, touched, dirty and
\* isSubmitting as they were.
C21_ErrorOpsFrame ==
    [][/\ last'.op = "setError" =>
             /\ ObjGet(errors', last'.field, Undefined) = last'.arg
             /\ SameElsewhere(errors', errors, last'.field)
       /\ last'.op = "clearError" =>
             /\ ~ObjHas(errors', last'.field)
             /\ SameElsewhere(errors', errors, last'.field)
             /\ ~ObjHas(errors, last'.field) => errors' = errors
       /\ last'.op = "resetErrors" => errors' = <<>>
       /\ last'.op \in {"setError", "clearError", "resetErrors"} =>
             /\ values' = values
             /\ touched' = touched
             /\ dirty' = dirty
             /\ isSubmitting' = isSubmitting]_vars

\* C21 witness: setError() wrote over the older of two entries, while a
\* submission is running.
C21_Witness ==
    /\ last.op = "setError"
    /\ last.arg = Str("Server error")
    /\ Len(errors) = 2
    /\ errors[1] = [k |-> last.field, v |-> Str("Server error")]
    /\ isSubmitting
    /\ dirty # {}

\* every rule of the schema accepts the current values
FormPasses ==
    cfg.validationSchema = Undefined \/ \A k \in SchemaKeys : FailingRules(k) = {}

\* C27: every handleSubmit() on a form that passes validation reaches the
\* callback, also while an earlier callback is in flight, and each time it is
\* reached the callback is invoked once.
C27_NoSubmitDeduplication ==
    [][/\ (last'.op = "handleSubmit" /\ FormPasses) => turn' = "invoke"
       /\ (turn = "invoke" /\ Truthy(cfg.onSubmit)) =>
             /\ last'.op \in {"callback", "callbackThrew"}
             /\ callCount' = callCount + 1
       /\ callCount' # callCount => turn = "invoke"]_vars

\* C27 witness: the callback is invoked a second time while the first
\* invocation has not settled.
C27_Witness ==
    /\ last.op = "callback"
    /\ callCount = 2
    /\ awaiting = 2

\* the keys of o2 that o1 does not have
NewKeys(o1, o2) == SeqToSet(ObjKeys(o2)) \ SeqToSet(ObjKeys(o1))

\* C28 as stated: setValue(f, v) on a field absent from values creates it,
\* leaves isValid as it was and adds no entry to errors.
C28_CreatedFieldValid ==
    [][(last'.op \in {"setValue", "handleChange"} /\ ~ObjHas(values, last'.field)) =>
          /\ ObjHas(values', last'.field)
          /\ isValid' = isValid
          /\ NewKeys(errors, errors') = {}]_vars

\* the rules of f run when f is written
ValidatedOnChange(f) ==
    cfg.validateOnChange /\ f \in touched /\ ~NoSchemaEntry(f)

\* C28 amended: setValue(f, v) on a field absent from values creates it;
\* when f carries no error before the call and the call does not run the
\* rules of f, isValid stays as it was and no entry is added to errors.
C28_CreatedFieldValidUnlessErrorOrValidated ==
    [][(last'.op \in {"setValue", "handleChange"} /\ ~ObjHas(values, last'.field)) =>
          /\ ObjHas(values', last'.field)
          /\ (~Truthy(ErrorOf(last'.field)) /\ ~ValidatedOnChange(last'.field)) =>
                /\ isValid' = isValid
                /\ NewKeys(errors, errors') = {}]_vars

\* C28 witness: a created field that has rules and was not validated, in a
\* form that stays valid.
C28_Witness ==
    /\ last.op = "setValue"
    /\ ~ObjHas(cfg.initialValues, last.field)
    /\ ~NoSchemaEntry(last.field)
    /\ ObjHas(values, last.field)
    /\ last.field \notin touched
    /\ errors = <<>>
    /\ isValid

\* C29: with validateOnChange off no setValue/handleChange changes errors;
\* with validateOnBlur off no handleBlur changes errors, and the field is
\* touched all the same.
C29_TimingOptionsHonoured ==
    [][/\ (last'.op \in {"setValue", "handleChange"} /\ ~cfg.validateOnChange) =>
             errors' = errors
       /\ (last'.op = "handleBlur" /\ ~cfg.validateOnBlur) =>
             /\ errors' = errors
             /\ last'.field \in touched']_vars

\* C29 witness: with both options off, a blur of a field whose rule rejects
\* its value left errors empty.
C29_Witness ==
    /\ last.op = "handleBlur"
    /\ ~cfg.validateOnBlur
    /\ ~NoSchemaEntry(last.field)
    /\ FailingRules(last.field) # {}
    /\ last.field \in dirty
    /\ errors = <<>>

\* C30: when the callback is invoked no field of the schema has an entry in
\* errors and every key of values is touched; from the successful
\* validateForm() to the invocation nothing else runs.
C30_CallbackSeesValidatedForm ==
    /\ [](last.op \in {"callback", "callbackThrew"} =>
             /\ cfg.validationSchema # Undefined =>
                   \A k \in SchemaKeys : ~ObjHas(errors, k)
             /\ FormPasses
             /\ \A i \in 1..Len(values) : values[i].k \in touched
             /\ last.arg = values)
    /\ [](turn = "invoke" => (last.op = "handleSubmit" /\ last.valid = Bool(TRUE)))
    /\ [][turn = "invoke" => /\ turn' = "idle"
                             /\ last'.op \in {"callback", "callbackThrew", "await"}
                             /\ values' = values
                             /\ errors' = errors
                             /\ touched' = touched]_vars

\* C30 witness: the callback is invoked with the validated values, after
\* the field was changed.
C30_Witness ==
    /\ last.op = "callback"
    /\ last.arg = values
    /\ errors = <<>>
    /\ dirty # {}
    /\ touched = SeqToSet(ObjKeys(values))

\* a step that ran scrollToFirstError(), called by the UI or by the timer
ScrollOps == {"scrollToFirstError", "scrollTimer"}

\* the positions of errors that hold a non-empty message
NonEmptyErrors == {i \in 1..Len(errors) : Truthy(errors[i].v)}

\* the element registered for field f, undefined when there is none
RefOf(f) == ObjGet(fieldRefs, f, Undefined)

\* the element of the first field, in the order of errors, that has a
\* non-empty message; undefined when no field has one or it has no ref
FirstNonEmptyRef ==
    IF NonEmptyErrors = {} THEN Undefined
    ELSE RefOf(errors[MinOf(NonEmptyErrors)].k)

\* C22: scrollToFirstError() scrolls to the first field, in the order of
\* errors, whose message is not empty: entries with an empty message are
\* passed over.
C22_ScrollSkipsEmptyMessages ==
    last.op \in ScrollOps => last.scrolled = FirstNonEmptyRef

\* the positions of values whose field is rejected by its rules
FailingValues ==
    {i \in 1..Len(values) : ~NoSchemaEntry(values[i].k) /\ FailingRules(values[i].k) # {}}

\* C23: when scrollToFirstError() runs right after a full-form validation
\* that found several invalid fields, it targets the first failing field in
\* the key order of values.
C23_ScrollTargetsFirstFailingValue ==
    [][(/\ last.op \in {"validateForm", "handleSubmit"}
        /\ Cardinality(FailingValues) > 1
        /\ last'.op \in ScrollOps) =>
          last'.scrolled = RefOf(values[MinOf(FailingValues)].k)]_vars

\* C24: scrollToFirstError() does nothing (no scroll, no focus timer, form
\* state unchanged) when no field has an error or the selected field has no
\* registered ref.
C24_ScrollNoOpWithoutTarget ==
    [][(last'.op \in ScrollOps /\ FirstNonEmptyRef = Undefined) =>
          /\ last'.scrolled = Undefined
          /\ focusTimers' = focusTimers
          /\ <<values, errors, touched, dirty, isSubmitting, isValid>>' =
                <<values, errors, touched, dirty, isSubmitting, isValid>>]_vars

\* the elements that are registered now
Registered == {fieldRefs[i].v : i \in 1..Len(fieldRefs)}

\* C25: when the focus timer fires after the ref it was set for has been
\* unregistered, no focus is requested.
C25_NoFocusOnUnregisteredRef ==
    last.op = "focusTimer" =>
        last.focused = Undefined \/ last.focused \in Registered

\* C26: a handleSubmit() that fails validation returns with isSubmitting
\* false and the scroll pending, not done; when the timer fires the scroll
\* uses errors and fieldRefs as they are then: none when errors is empty or
\* no ref is registered, else the ref now registered for a field now in
\* errors.
C26_ScrollDeferredAfterFailedSubmit ==
    /\ []((last.op = "handleSubmit" /\ last.valid = Bool(FALSE)) =>
             /\ timers > 0
             /\ last.scrolled = Undefined
             /\ ~isSubmitting
             /\ last.promise = "fulfilled")
    /\ [][last'.op = "scrollTimer" =>
             /\ timers' = timers - 1
             /\ (errors = <<>> \/ fieldRefs = <<>>) => last'.scrolled = Undefined
             /\ last'.scrolled # Undefined =>
                   \E i \in 1..Len(errors) : RefOf(errors[i].k) = last'.scrolled]_vars

\* C26 witness: the timer of a failed handleSubmit() fired after the errors
\* were cleared, with a ref registered: nothing was scrolled.
C26_Witness ==
    /\ last.op = "scrollTimer"
    /\ last.scrolled = Undefined
    /\ errors = <<>>
    /\ fieldRefs # <<>>
    /\ touched # {}

\* C31: isSubmitting is true whenever a submit callback has been invoked and
\* has not settled.
C31_SubmittingWhileInFlight ==
    (Truthy(cfg.onSubmit) /\ awaiting > 0) => isSubmitting

\* C32: the value validateForm() returns is the value of isValid right after
\* the call.
C32_ValidateFormAgreesWithIsValid ==
    last.op = "validateForm" => last.ret = Bool(isValid)

\* C33: every touched field that has rules carries in errors the verdict of
\* its rules on the current values, rules that read other fields included.
C33_TouchedFieldsCurrent ==
    \A f \in touched : ~NoSchemaEntry(f) => ErrorOf(f) = VerdictOf(f)

\* C34: validateField(f) of an empty optional field (no `required` among its
\* rules, value "", null or undefined) returns true and leaves no error.
C34_OptionalEmptyPasses ==
    (/\ last.op = "validateField"
     /\ ~NoSchemaEntry(last.field)
     /\ ~IncludesRequired(last.field)
     /\ IsEmptyValue(ObjGet(values, last.field, Undefined))) =>
        /\ last.ret = Bool(TRUE)
        /\ ~ObjHas(errors, last.field)

====
